---- MODULE Spec2Model ----
(***************************************************************************)
(* A model of analyze_temperatures.py: the CSV loader, the three analyses  *)
(* (seasonal averages, largest temperature range, temperature stability)   *)
(* and main, which runs them in sequence and writes three report files.    *)
(*                                                                         *)
(* Numbers.  A temperature is an integer count of units of 0.00005 degrees *)
(* Celsius, so the code's comparison tolerance 0.0001 is TOL = 2 units and *)
(* one printed decimal place (0.1 degrees) is TENTH = 2000 units.  A mean  *)
(* is kept as an exact fraction <<n, d>> in lowest terms, a standard       *)
(* deviation as the fraction <<p, q>> of which it is the square root; the  *)
(* rounding error of binary floating point is not modelled, and NaN and    *)
(* the infinities are not among the inputs.                                *)
(*                                                                         *)
(* A Python dict is a sequence of <<key, value>> pairs in insertion order. *)
(* None is the empty tuple and a float x is the one-element tuple <<x>>.   *)
(***************************************************************************)
EXTENDS Integers, Sequences, FiniteSets, TLC

VARIABLES
    folder,            \* the file system at folder_path: [kind, entries]
    unwritable,        \* the report paths open(.., 'w') fails on
    disk,              \* the three report files: [name -> [exists, lines]]
    start,             \* disk as it was when the current run of main began
    pc,                \* where main (or the caller of one function) is
    run,               \* number of the current run of main
    data,              \* main's local `data`: the Dataset
    err,               \* the exception raised to the caller, or NoError
    wrote,             \* the report files written so far in this run, in order
    season_data,       \* the dict built by calculate_seasonal_averages
    seasonal_averages, \* main's local: the returned season -> mean dict
    max_range_stations,\* main's local: the returned [(station, info)]
    most_stable,       \* main's local: the returned [(station, stddev)]
    most_variable      \* main's local: the returned [(station, stddev)]

vars == <<folder, unwritable, disk, start, pc, run, data, err, wrote,
          season_data, seasonal_averages, max_range_stations,
          most_stable, most_variable>>

----------------------------------------------------------------------------
(* Bounds of the model *)

\* rows of a Dataset handed directly to the range and stability analyses
MaxRows == 3
\* rows of a Dataset handed directly to calculate_seasonal_averages
MaxSeasonRows == 2
\* directory entries of the input folder
MaxFiles == 2
\* successive runs of main
MaxRuns == 2

----------------------------------------------------------------------------
(* Program constants *)

\* abs(a - b) < 0.0001, in units of 0.00005
TOL == 2
\* the format :.1f, one tenth of a degree in units of 0.00005
TENTH == 2000

\* a slip in the table: December listed twice and November in no season
SEASONS_slip ==
    << <<"Summer", <<"December", "January", "February">> >>,
       <<"Autumn", <<"March", "April", "May">> >>,
       <<"Winter", <<"June", "July", "August">> >>,
       <<"Spring", <<"September", "October", "December">> >> >>

SEASONS ==
    << <<"Summer", <<"December", "January", "February">> >>,
       <<"Autumn", <<"March", "April", "May">> >>,
       <<"Winter", <<"June", "July", "August">> >>,
       <<"Spring", <<"September", "October", "November">> >> >>

RECURSIVE Flatten(_)
Flatten(ss) == IF ss = << >> THEN << >> ELSE Head(ss) \o Flatten(Tail(ss))

ALL_MONTHS == Flatten([i \in 1..Len(SEASONS) |-> SEASONS[i][2]])

\* the columns a file must have (line 58)
required_cols == <<"STATION_NAME">> \o ALL_MONTHS

\* the twelve month columns of the calendar, named independently of SEASONS
Months == {"January", "February", "March", "April", "May", "June", "July",
           "August", "September", "October", "November", "December"}

Stations == {"A", "B"}

AVG_FILE == "average_temp.txt"
RANGE_FILE == "largest_temp_range_station.txt"
STAB_FILE == "temperature_stability_stations.txt"
OutFiles == {AVG_FILE, RANGE_FILE, STAB_FILE}

NoError == "none"

----------------------------------------------------------------------------
(* Values *)

None == << >>
Float(x) == <<x>>

Range(s) == {s[i] : i \in 1..Len(s)}

RECURSIVE Sum(_)
Sum(s) == IF s = << >> THEN 0 ELSE Head(s) + Sum(Tail(s))

RECURSIVE GCD(_, _)
GCD(a, b) == IF b = 0 THEN a ELSE GCD(b, a % b)

\* the fraction n/d (n >= 0, d > 0) in lowest terms
Rat(n, d) == LET g == GCD(n, d) IN <<n \div g, d \div g>>

Zero == <<0, 1>>

RatLt(a, b) == a[1] * b[2] < b[1] * a[2]

\* max(temps), min(temps) of a non-empty list of integers
MaxOf(temps) == CHOOSE x \in Range(temps) : \A y \in Range(temps) : y <= x
MinOf(temps) == CHOOSE x \in Range(temps) : \A y \in Range(temps) : x <= y

\* statistics.mean(temps) of a non-empty list
Mean(temps) == Rat(Sum(temps), Len(temps))

\* statistics.stdev(temps), the sample standard deviation of a list of at
\* least two values, as the fraction whose square root it is:
\* (n * sum(x^2) - sum(x)^2) / (n * (n - 1))
Stdev(temps) ==
    LET n == Len(temps)
        sq == Sum([i \in 1..n |-> temps[i] * temps[i]])
        s == Sum(temps)
    IN Rat(n * sq - s * s, n * (n - 1))

\* abs(sqrt(a) - sqrt(b)) < tol for fractions a, b and an integer tol:
\* with hi >= lo, sqrt(hi) < tol + sqrt(lo), i.e.
\* hi - lo - tol^2 < 2 * tol * sqrt(lo)
SqrtClose(a, b, tol) ==
    LET hi == IF RatLt(a, b) THEN b ELSE a
        lo == IF RatLt(a, b) THEN a ELSE b
        L == hi[1] * lo[2] - lo[1] * hi[2] - tol * tol * hi[2] * lo[2]
    IN \/ L < 0
       \/ L * L < 4 * tol * tol * hi[2] * hi[2] * lo[1] * lo[2]

\* f"{x:.1f}" of the fraction n/d >= 0: the number of tenths, round-half-even
RECURSIVE Fmt1From(_, _)
Fmt1From(r, t) ==
    LET lhs == 2 * r[1]
        rhs == (2 * t + 1) * TENTH * r[2]
    IN IF lhs < rhs THEN t
       ELSE IF lhs = rhs THEN (IF t % 2 = 0 THEN t ELSE t + 1)
       ELSE Fmt1From(r, t + 1)

Fmt1(r) == Fmt1From(r, 0)

\* f"{x:.1f}" of sqrt(p/q): 2 * sqrt(p/q) against (2t + 1) * TENTH, squared
RECURSIVE FmtSqrtFrom(_, _)
FmtSqrtFrom(v, t) ==
    LET lhs == 4 * v[1]
        rhs == (2 * t + 1) * (2 * t + 1) * TENTH * TENTH * v[2]
    IN IF lhs < rhs THEN t
       ELSE IF lhs = rhs THEN (IF t % 2 = 0 THEN t ELSE t + 1)
       ELSE FmtSqrtFrom(v, t + 1)

FmtSqrt(v) == FmtSqrtFrom(v, 0)

----------------------------------------------------------------------------
(* Python dicts, as sequences of <<key, value>> pairs in insertion order *)

Keys(d) == [i \in 1..Len(d) |-> d[i][1]]
Values(d) == [i \in 1..Len(d) |-> d[i][2]]
HasKey(d, k) == \E i \in 1..Len(d) : d[i][1] = k
\* the place of key k in d
Slot(d, k) == CHOOSE i \in 1..Len(d) : d[i][1] = k

\* d[k] = v
DictSet(d, k, v) ==
    IF HasKey(d, k)
    THEN [d EXCEPT ![Slot(d, k)] = <<k, v>>]
    ELSE Append(d, <<k, v>>)

\* a slip: d[k] = v where d[k].extend(v) is meant, so that a later record of
\* a station replaces the readings of the earlier ones
DictExtend_assign(d, k, v) ==
    IF HasKey(d, k)
    THEN [d EXCEPT ![Slot(d, k)] = <<k, v>>]
    ELSE Append(d, <<k, v>>)

\* d[k].extend(v) on a defaultdict(list): a new key starts from []
DictExtend(d, k, v) ==
    IF HasKey(d, k)
    THEN [d EXCEPT ![Slot(d, k)] = <<k, @[2] \o v>>]
    ELSE Append(d, <<k, v>>)

----------------------------------------------------------------------------
(* The text of CSV cells *)

\* the decimal strings of the temperatures 0, 1, 2, ... units
NumStr == <<"0.0", "0.00005", "0.0001", "0.00015", "0.0002", "0.00025">>
\* the same with blanks around them, which float() accepts
PadStr == <<" 0.0 ", " 0.00005 ", " 0.0001 ", " 0.00015 ", " 0.0002 ",
            " 0.00025 ">>

\* str.strip(): is the stripped text empty
StripsToEmpty(s) == s \in {"", " ", "  "}

\* float(s) succeeds
IsFloat(s) == \E i \in 1..Len(NumStr) : s = NumStr[i] \/ s = PadStr[i]
\* float(s)
FloatOf(s) == (CHOOSE i \in 1..Len(NumStr) : s = NumStr[i] \/ s = PadStr[i]) - 1

\* lines 68-71: float(row[month]) if row[month].strip() else None, with
\* ValueError (not a number) and AttributeError (the cell is None) giving None
ParseCell(c) ==
    IF c = None THEN None
    ELSE IF StripsToEmpty(c[1]) THEN None
    ELSE IF IsFloat(c[1]) THEN Float(FloatOf(c[1]))
    ELSE None

\* lines 64-72: the row with its twelve month cells cleaned
CleanRow(row) ==
    [k \in DOMAIN row |->
        IF k \in Range(ALL_MONTHS) THEN ParseCell(row[k]) ELSE row[k]]

----------------------------------------------------------------------------
(* read_csv_files *)

Raise(e) == [exc |-> e, value |-> << >>]
Return(v) == [exc |-> NoError, value |-> v]

\* f.endswith('.csv')
EndsWithCsv(f) == f.ext = ".csv"

\* line 59: all(col in reader.fieldnames for col in required_cols)
HasRequiredCols(fieldnames) ==
    \A i \in 1..Len(required_cols) : required_cols[i] \in Range(fieldnames)

\* lines 52-78, one file: what all_data is after the file.  A file that
\* cannot be opened, or whose fieldnames is None (an empty file: the
\* membership test raises TypeError), raises into the except clause; a file
\* lacking a required column is left by `continue`; otherwise every record
\* the reader yields is cleaned and appended, and if the reader then raises
\* (f.broken) the except clause logs it and the rows appended stay.
ReadOneFile(all_data, f) ==
    IF ~f.openable THEN all_data
    ELSE IF f.fieldnames = None THEN all_data
    ELSE IF ~HasRequiredCols(f.fieldnames) THEN all_data
    ELSE all_data \o [i \in 1..Len(f.rows) |-> CleanRow(f.rows[i])]

RECURSIVE ReadFiles(_, _)
ReadFiles(all_data, csv_files) ==
    IF csv_files = << >> THEN all_data
    ELSE ReadFiles(ReadOneFile(all_data, Head(csv_files)), Tail(csv_files))

\* lines 80-84
NonEmpty(all_data) ==
    IF all_data = << >> THEN Raise("NoValidData") ELSE Return(all_data)

\* lines 47-84
ReadAll(csv_files) ==
    IF csv_files = << >> THEN Raise("NoInputFiles")
    ELSE NonEmpty(ReadFiles(<< >>, csv_files))

\* lines 37-84.  os.path.exists is true of a path that is a regular file,
\* on which os.listdir then raises NotADirectoryError.
read_csv_files(fd) ==
    IF fd.kind = "absent" THEN Raise("FolderNotFound")
    ELSE IF fd.kind # "dir" THEN Raise("NotADirectoryError")
    ELSE ReadAll(SelectSeq(fd.entries, EndsWithCsv))

----------------------------------------------------------------------------
(* Report files *)

\* can open(name, 'w') succeed
CanWrite(fs, name) == name \notin fs.unwritable

\* a slip: the file opened with mode 'a', the lines added to what it holds
WriteFile_append(dsk, name, lines) ==
    [dsk EXCEPT ![name] = [exists |-> TRUE, lines |-> dsk[name].lines \o lines]]

\* with open(name, 'w') as f: f.write(line) for each line
WriteFile(dsk, name, lines) ==
    [dsk EXCEPT ![name] = [exists |-> TRUE, lines |-> lines]]

----------------------------------------------------------------------------
(* calculate_seasonal_averages *)

\* [row[month] for month in months if row[month] is not None]
RowTemps(row, months) ==
    LET present == SelectSeq(months, LAMBDA m : row[m] # None)
    IN [i \in 1..Len(present) |-> row[present[i]][1]]

\* lines 103-106, one row: each season's list extended in SEASONS order
RECURSIVE ExtendSeasons(_, _, _)
ExtendSeasons(sd, row, seasons) ==
    IF seasons = << >> THEN sd
    ELSE ExtendSeasons(
            DictExtend(sd, Head(seasons)[1], RowTemps(row, Head(seasons)[2])),
            row, Tail(seasons))

\* lines 100-106
RECURSIVE SeasonData(_, _)
SeasonData(sd, rows) ==
    IF rows = << >> THEN sd
    ELSE SeasonData(ExtendSeasons(sd, Head(rows), SEASONS), Tail(rows))

\* lines 110-113
SeasonAverages(sd) ==
    [i \in 1..Len(sd) |->
        <<sd[i][1], IF sd[i][2] # << >> THEN Mean(sd[i][2]) ELSE Zero>>]

\* line 119: f"{season}: {avg:.1f}"
SeasonLines(avgs) == [i \in 1..Len(avgs) |-> <<avgs[i][1], Fmt1(avgs[i][2])>>]

\* lines 116-125: the report written and the averages returned, or the
\* exception of the write raised again
SaveSeasonal(sd, avgs, fs) ==
    IF CanWrite(fs, AVG_FILE)
    THEN [exc |-> NoError, value |-> avgs, season_data |-> sd,
          disk |-> WriteFile(fs.disk, AVG_FILE, SeasonLines(avgs))]
    ELSE [exc |-> "ReportWriteFailed", value |-> << >>, season_data |-> sd,
          disk |-> fs.disk]

\* lines 110-125
AverageSeasons(sd, fs) == SaveSeasonal(sd, SeasonAverages(sd), fs)

\* lines 100-125: the exception or the return value, the dict built on the
\* way, and the disk afterwards
calculate_seasonal_averages(rows, fs) ==
    AverageSeasons(SeasonData(<< >>, rows), fs)

----------------------------------------------------------------------------
(* find_largest_temp_range and find_temperature_stability *)

\* lines 144-148 and 203-207: every row's non-missing temperatures, in
\* ALL_MONTHS order, appended to the list of the row's station
RECURSIVE StationTemps(_, _)
StationTemps(st, rows) ==
    IF rows = << >> THEN st
    ELSE StationTemps(
            DictExtend(st, Head(rows)["STATION_NAME"],
                       RowTemps(Head(rows), ALL_MONTHS)),
            Tail(rows))

\* lines 152-159: only stations with at least one temperature get an entry
RECURSIVE StationRanges(_, _)
StationRanges(sr, st) ==
    IF st = << >> THEN sr
    ELSE LET station == Head(st)[1]
             temps == Head(st)[2]
         IN StationRanges(
                IF temps # << >>
                THEN DictSet(sr, station,
                             [range |-> MaxOf(temps) - MinOf(temps),
                              max |-> MaxOf(temps),
                              min |-> MinOf(temps)])
                ELSE sr,
                Tail(st))

\* line 166: max(info['range'] for info in station_ranges.values())
MaxRange(sr) == MaxOf([i \in 1..Len(sr) |-> sr[i][2].range])

Abs(x) == IF x < 0 THEN -x ELSE x

\* lines 167-170
MaxRangeStations(sr) ==
    SelectSeq(sr, LAMBDA e : Abs(e[2].range - MaxRange(sr)) < TOL)

\* lines 176-177
RangeLines(mrs) ==
    [i \in 1..Len(mrs) |->
        <<mrs[i][1], Fmt1(<<mrs[i][2].range, 1>>), Fmt1(<<mrs[i][2].max, 1>>),
          Fmt1(<<mrs[i][2].min, 1>>)>>]

\* lines 172-183
SaveRanges(mrs, fs) ==
    IF CanWrite(fs, RANGE_FILE)
    THEN [exc |-> NoError, value |-> mrs,
          disk |-> WriteFile(fs.disk, RANGE_FILE, RangeLines(mrs))]
    ELSE [exc |-> "ReportWriteFailed", value |-> << >>, disk |-> fs.disk]

\* lines 161-183
LargestOf(station_ranges, fs) ==
    IF station_ranges = << >>
    THEN [exc |-> "NoStationData", value |-> << >>, disk |-> fs.disk]
    ELSE SaveRanges(MaxRangeStations(station_ranges), fs)

\* lines 142-183
find_largest_temp_range(rows, fs) ==
    LargestOf(StationRanges(<< >>, StationTemps(<< >>, rows)), fs)

\* lines 214-218: statistics.stdev(temps) if len(temps) > 1 else 0.0
StddevOf(temps) == IF Len(temps) > 1 THEN Stdev(temps) ELSE Zero

\* lines 212-219: every key of station_temps gets an entry
StationStddevs(st) == [i \in 1..Len(st) |-> <<st[i][1], StddevOf(st[i][2])>>]

\* lines 226-227: min and max of the values
MinStddev(ss) ==
    LET v == Values(ss)
    IN CHOOSE x \in Range(v) : \A y \in Range(v) : ~RatLt(y, x)
MaxStddev(ss) ==
    LET v == Values(ss)
    IN CHOOSE x \in Range(v) : \A y \in Range(v) : ~RatLt(x, y)

\* lines 231-234
MostStable(ss) == SelectSeq(ss, LAMBDA e : SqrtClose(e[2], MinStddev(ss), TOL))
MostVariable(ss) == SelectSeq(ss, LAMBDA e : SqrtClose(e[2], MaxStddev(ss), TOL))

\* lines 240-244
StabilityLines(stable, variable) ==
    [i \in 1..Len(stable) |->
        <<"Most Stable", stable[i][1], FmtSqrt(stable[i][2])>>]
    \o [i \in 1..Len(variable) |->
        <<"Most Variable", variable[i][1], FmtSqrt(variable[i][2])>>]

\* lines 236-250
SaveStability(stable, variable, fs) ==
    IF CanWrite(fs, STAB_FILE)
    THEN [exc |-> NoError, value |-> <<stable, variable>>,
          disk |-> WriteFile(fs.disk, STAB_FILE,
                             StabilityLines(stable, variable))]
    ELSE [exc |-> "ReportWriteFailed", value |-> <<<< >>, << >>>>,
          disk |-> fs.disk]

\* lines 221-250
ExtremesOf(station_stddevs, fs) ==
    IF station_stddevs = << >>
    THEN [exc |-> "NoStationData", value |-> <<<< >>, << >>>>, disk |-> fs.disk]
    ELSE SaveStability(MostStable(station_stddevs),
                       MostVariable(station_stddevs), fs)

\* lines 201-250
find_temperature_stability(rows, fs) ==
    ExtremesOf(StationStddevs(StationTemps(<< >>, rows)), fs)

----------------------------------------------------------------------------
(* Inputs *)

\* the readings used: two within the tolerance of each other (0 and 1 unit)
\* and one farther from both (3 units)
Temps == {0, 1, 3}

SeqsUpTo(S, n) == UNION {[1..k -> S] : k \in 0..n}

Columns == {"STATION_NAME"} \cup Months

\* a row of the Dataset: a station name and, per month, None or a float
Row(station, cells) ==
    [k \in Columns |-> IF k = "STATION_NAME" THEN station ELSE cells[k]]

EmptyCells == [m \in Months |-> None]
OneCell(m, v) == [EmptyCells EXCEPT ![m] = Float(v)]
TwoCells(v, w) == [EmptyCells EXCEPT !["January"] = Float(v), !["July"] = Float(w)]
FullCells(v) == [m \in Months |-> Float(v)]

\* rows for the per-station analyses: no reading, one reading, two readings
StationRows ==
    {Row(s, c) : s \in Stations,
                 c \in {EmptyCells} \cup {OneCell("January", v) : v \in Temps}
                       \cup {TwoCells(0, v) : v \in Temps}}

\* rows for the seasonal analysis: no reading, one reading in any month,
\* a reading in every month
SeasonRows ==
    {Row("A", c) : c \in {EmptyCells}
                         \cup {OneCell(m, v) : m \in Months, v \in Temps}
                         \cup {FullCells(v) : v \in Temps}}

\* the text of a record of a CSV file with the columns cols
RawRow(station, cells, cols) ==
    [k \in cols |-> IF k = "STATION_NAME" THEN station ELSE cells[k]]

\* twelve cells that all clean to None: empty, blank, not a number, absent
MissingRaw ==
    [m \in Months |->
        CASE m = "January" -> <<" ">>
          [] m = "February" -> <<"n/a">>
          [] m = "March" -> None
          [] OTHER -> <<"">>]

\* two readings, 3 units in January and 0 units in July
DataRaw ==
    [MissingRaw EXCEPT !["January"] = <<"0.00015">>, !["July"] = <<" 0.0 ">>]

\* the records a reader yields: none, one without a reading, one with
\* readings, both
Bodies ==
    {<< >>,
     <<RawRow("A", MissingRaw, Columns)>>,
     <<RawRow("B", DataRaw, Columns)>>,
     <<RawRow("A", MissingRaw, Columns), RawRow("B", DataRaw, Columns)>>}

Header ==
    <<"STATION_NAME", "January", "February", "March", "April", "May", "June",
      "July", "August", "September", "October", "November", "December">>

File(ext, openable, fieldnames, rows, broken) ==
    [ext |-> ext, openable |-> openable, fieldnames |-> fieldnames,
     rows |-> rows, broken |-> broken]

\* a directory entry: a file that is no CSV, a CSV that cannot be opened, an
\* empty CSV, a CSV without the STATION_NAME column, a CSV without the July
\* column, and the CSVs with every column, whose reader yields the records
\* of one of Bodies and then ends or, after at least one record, raises
\* (broken: undecodable bytes or a malformed record further down the file)
Entries ==
    {File(".txt", TRUE, None, << >>, FALSE),
     File(".csv", FALSE, None, << >>, FALSE),
     File(".csv", TRUE, None, << >>, FALSE),
     File(".csv", TRUE, Tail(Header),
          <<RawRow("B", DataRaw, Months)>>, FALSE),
     File(".csv", TRUE, SelectSeq(Header, LAMBDA c : c # "July"),
          <<RawRow("B", DataRaw, Columns \ {"July"})>>, FALSE)}
    \cup {File(".csv", TRUE, Header, rows, FALSE) : rows \in Bodies}
    \cup {File(".csv", TRUE, Header, rows, TRUE) : rows \in Bodies \ {<< >>}}

Folders ==
    {[kind |-> k, entries |-> << >>] : k \in {"absent", "file"}}
    \cup {[kind |-> "dir", entries |-> e] : e \in SeqsUpTo(Entries, MaxFiles)}

NoFolder == [kind |-> "absent", entries |-> << >>]

Absent == [f \in OutFiles |-> [exists |-> FALSE, lines |-> << >>]]

\* reports left by some earlier program
Stale ==
    [f \in OutFiles |->
        [exists |-> TRUE,
         lines |-> CASE f = AVG_FILE -> << <<"Summer", 250>> >>
                     [] f = RANGE_FILE -> << <<"Z", 1, 1, 0>> >>
                     [] OTHER -> << <<"Most Stable", "Z", 0>> >>]]

FS == [disk |-> disk, unwritable |-> unwritable]

----------------------------------------------------------------------------
(* main *)

InitLocals ==
    /\ data = << >>
    /\ err = NoError
    /\ wrote = << >>
    /\ season_data = << >>
    /\ seasonal_averages = << >>
    /\ max_range_stations = << >>
    /\ most_stable = << >>
    /\ most_variable = << >>

Init ==
    /\ folder \in Folders
    /\ disk \in {Absent, Stale}
    /\ unwritable \in {{}} \cup {{f} : f \in OutFiles}
    /\ unwritable # {} => disk = Stale
    /\ start = disk
    /\ pc = "main"
    /\ run = 1
    /\ InitLocals

\* a slip: the exception of a stage logged and not raised again, main going on
Proceed_swallow(r, next) == next

\* lines 263 and 292-296: an exception raised by a stage leaves the try block
\* and is raised again, otherwise main goes on to the next stage
Proceed(r, next) == IF r.exc = NoError THEN next ELSE "raised"

\* the exception main raises
Raised(r) == IF r.exc = NoError THEN err ELSE r.exc

\* the reports written in this run
Wrote(r, name) == IF r.exc = NoError THEN Append(wrote, name) ELSE wrote

\* line 268
Main_read_csv_files ==
    /\ pc = "main"
    /\ LET r == read_csv_files(folder)
       IN /\ data' = r.value
          /\ pc' = Proceed(r, "loaded")
          /\ err' = Raised(r)
    /\ UNCHANGED <<folder, unwritable, disk, start, run, wrote, season_data,
                   seasonal_averages, max_range_stations, most_stable,
                   most_variable>>

\* line 273
Main_calculate_seasonal_averages ==
    /\ pc = "loaded"
    /\ LET r == calculate_seasonal_averages(data, FS)
       IN /\ seasonal_averages' = r.value
          /\ season_data' = r.season_data
          /\ disk' = r.disk
          /\ wrote' = Wrote(r, AVG_FILE)
          /\ pc' = Proceed(r, "averaged")
          /\ err' = Raised(r)
    /\ UNCHANGED <<folder, unwritable, start, run, data, max_range_stations,
                   most_stable, most_variable>>

\* line 278
Main_find_largest_temp_range ==
    /\ pc = "averaged"
    /\ LET r == find_largest_temp_range(data, FS)
       IN /\ max_range_stations' = r.value
          /\ disk' = r.disk
          /\ wrote' = Wrote(r, RANGE_FILE)
          /\ pc' = Proceed(r, "ranged")
          /\ err' = Raised(r)
    /\ UNCHANGED <<folder, unwritable, start, run, data, season_data,
                   seasonal_averages, most_stable, most_variable>>

\* lines 283-290
Main_find_temperature_stability ==
    /\ pc = "ranged"
    /\ LET r == find_temperature_stability(data, FS)
       IN /\ most_stable' = r.value[1]
          /\ most_variable' = r.value[2]
          /\ disk' = r.disk
          /\ wrote' = Wrote(r, STAB_FILE)
          /\ pc' = Proceed(r, "done")
          /\ err' = Raised(r)
    /\ UNCHANGED <<folder, unwritable, start, run, data, season_data,
                   seasonal_averages, max_range_stations>>

\* lines 300-301: the script is run again, a new process on the same files
RunAgain ==
    /\ pc \in {"done", "raised"}
    /\ run < MaxRuns
    /\ run' = run + 1
    /\ pc' = "main"
    /\ start' = disk
    /\ data' = << >>
    /\ err' = NoError
    /\ wrote' = << >>
    /\ season_data' = << >>
    /\ seasonal_averages' = << >>
    /\ max_range_stations' = << >>
    /\ most_stable' = << >>
    /\ most_variable' = << >>
    /\ UNCHANGED <<folder, unwritable, disk>>

Next ==
    \/ Main_read_csv_files
    \/ Main_calculate_seasonal_averages
    \/ Main_find_largest_temp_range
    \/ Main_find_temperature_stability
    \/ RunAgain

Spec == Init /\ [][Next]_vars

----------------------------------------------------------------------------
(* The analyses called on their own *)

InitCall ==
    /\ folder = NoFolder
    /\ unwritable = {}
    /\ disk = Absent
    /\ start = disk
    /\ pc = "call"
    /\ run = 1
    /\ err = NoError
    /\ wrote = << >>
    /\ season_data = << >>
    /\ seasonal_averages = << >>
    /\ max_range_stations = << >>
    /\ most_stable = << >>
    /\ most_variable = << >>

\* where the caller is after the call
After(r) == IF r.exc = NoError THEN "returned" ELSE "raised"

Call_calculate_seasonal_averages ==
    /\ pc = "call"
    /\ LET r == calculate_seasonal_averages(data, FS)
       IN /\ seasonal_averages' = r.value
          /\ season_data' = r.season_data
          /\ disk' = r.disk
          /\ wrote' = Wrote(r, AVG_FILE)
          /\ pc' = After(r)
          /\ err' = r.exc
    /\ UNCHANGED <<folder, unwritable, start, run, data, max_range_stations,
                   most_stable, most_variable>>

Call_find_largest_temp_range ==
    /\ pc = "call"
    /\ LET r == find_largest_temp_range(data, FS)
       IN /\ max_range_stations' = r.value
          /\ disk' = r.disk
          /\ wrote' = Wrote(r, RANGE_FILE)
          /\ pc' = After(r)
          /\ err' = r.exc
    /\ UNCHANGED <<folder, unwritable, start, run, data, season_data,
                   seasonal_averages, most_stable, most_variable>>

Call_find_temperature_stability ==
    /\ pc = "call"
    /\ LET r == find_temperature_stability(data, FS)
       IN /\ most_stable' = r.value[1]
          /\ most_variable' = r.value[2]
          /\ disk' = r.disk
          /\ wrote' = Wrote(r, STAB_FILE)
          /\ pc' = After(r)
          /\ err' = r.exc
    /\ UNCHANGED <<folder, unwritable, start, run, data, season_data,
                   seasonal_averages, max_range_stations>>

InitSeasonal == InitCall /\ data \in SeqsUpTo(SeasonRows, MaxSeasonRows)
NextSeasonal == Call_calculate_seasonal_averages
SpecSeasonal == InitSeasonal /\ [][NextSeasonal]_vars

InitStations == InitCall /\ data \in SeqsUpTo(StationRows, MaxRows)
NextStations ==
    \/ Call_find_largest_temp_range
    \/ Call_find_temperature_stability
SpecStations == InitStations /\ [][NextStations]_vars

----------------------------------------------------------------------------
(* What the properties speak of, stated on the Dataset itself *)

\* the station names of a Dataset
NamesOf(rows) == {rows[i]["STATION_NAME"] : i \in 1..Len(rows)}

\* the number of non-missing month cells of a row, over the calendar
Present(row) == Cardinality({m \in Months : row[m] # None})

\* the non-missing temperatures of a row, in calendar order
Readings(row) ==
    LET months == SelectSeq(Tail(Header), LAMBDA m : row[m] # None)
    IN [i \in 1..Len(months) |-> row[months[i]][1]]

\* the pooled list of a station: the readings of all its records, concatenated
RECURSIVE Pooled(_, _)
Pooled(rows, s) ==
    IF rows = << >> THEN << >>
    ELSE (IF Head(rows)["STATION_NAME"] = s THEN Readings(Head(rows)) ELSE << >>)
         \o Pooled(Tail(rows), s)

\* the stations holding data
WithData(rows) == {s \in NamesOf(rows) : Pooled(rows, s) # << >>}

\* the index of the first record of a station
FirstIndex(rows, s) ==
    CHOOSE i \in 1..Len(rows) :
        /\ rows[i]["STATION_NAME"] = s
        /\ \A j \in 1..(i - 1) : rows[j]["STATION_NAME"] # s

\* a list of station names, each a station of the Dataset, in the order of
\* first appearance and so without repetition
InFirstOrder(rows, names) ==
    /\ \A i \in 1..Len(names) : names[i] \in NamesOf(rows)
    /\ \A i, j \in 1..Len(names) :
            i < j => FirstIndex(rows, names[i]) < FirstIndex(rows, names[j])

SetMax(S) == CHOOSE x \in S : \A y \in S : y <= x
SetMin(S) == CHOOSE x \in S : \A y \in S : x <= y

\* range of a station holding data
RangeOf(rows, s) == SetMax(Range(Pooled(rows, s))) - SetMin(Range(Pooled(rows, s)))

\* standard deviation of a station holding data: the sample standard
\* deviation, 0.0 with a single reading
SdOf(rows, s) ==
    IF Len(Pooled(rows, s)) >= 2 THEN Stdev(Pooled(rows, s)) ELSE Zero

----------------------------------------------------------------------------
(* Properties of the per-station analyses, under SpecStations *)

\* C1: a station whose pooled list of non-missing temperatures is empty
\* appears in neither the largest-range result nor the most-stable or
\* most-variable result (so it is never reported with a statistic of 0.0).
C1_EmptyStationsExcluded ==
    pc = "returned" =>
        \A s \in NamesOf(data) \ WithData(data) :
            /\ s \notin Range(Keys(max_range_stations))
            /\ s \notin Range(Keys(most_stable))
            /\ s \notin Range(Keys(most_variable))

\* C2: when at least one station holds data, the largest-range result is
\* exactly the stations whose range is within the tolerance of the maximum
\* range, and the most-stable / most-variable results are exactly the stations
\* whose standard deviation is within the tolerance of the minimum / maximum
\* standard deviation, the stations being those holding data.
C2_TiesReported ==
    (pc = "returned" /\ WithData(data) # {}) =>
        LET W == WithData(data)
            top == SetMax({RangeOf(data, s) : s \in W})
            lo == CHOOSE s \in W : \A t \in W : ~RatLt(SdOf(data, t), SdOf(data, s))
            hi == CHOOSE s \in W : \A t \in W : ~RatLt(SdOf(data, s), SdOf(data, t))
        IN /\ wrote = <<RANGE_FILE>> =>
                Range(Keys(max_range_stations))
                    = {s \in W : Abs(RangeOf(data, s) - top) < TOL}
           /\ wrote = <<STAB_FILE>> =>
                /\ Range(Keys(most_stable))
                    = {s \in W : SqrtClose(SdOf(data, s), SdOf(data, lo), TOL)}
                /\ Range(Keys(most_variable))
                    = {s \in W : SqrtClose(SdOf(data, s), SdOf(data, hi), TOL)}

\* C8: each of the two per-station analyses fails with NoStationData, without
\* writing its report file, whenever no station of the Dataset has a
\* non-missing temperature.
C8_NoStationDataRaised ==
    (pc # "call" /\ WithData(data) = {}) =>
        /\ pc = "raised"
        /\ err = "NoStationData"
        /\ disk = start

\* C10: a station's max, min, range and standard deviation are computed over
\* its pooled list, each station name appears at most once in each result, and
\* the stations of a result are in the order of their first appearance in the
\* Dataset.
C10_Pooling ==
    pc = "returned" =>
        /\ InFirstOrder(data, Keys(max_range_stations))
        /\ InFirstOrder(data, Keys(most_stable))
        /\ InFirstOrder(data, Keys(most_variable))
        /\ \A i \in 1..Len(max_range_stations) :
            LET s == max_range_stations[i][1]
                info == max_range_stations[i][2]
                pool == Range(Pooled(data, s))
            IN /\ pool # {}
               /\ info.max = SetMax(pool)
               /\ info.min = SetMin(pool)
               /\ info.range = SetMax(pool) - SetMin(pool)
        /\ \A e \in Range(most_stable) \cup Range(most_variable) :
                e[2] = SdOf(data, e[1])

\* a station with two records of one reading each and another station between
\* them, both stations reported, the first with a range that only the two
\* records together have
C10_Witness ==
    /\ pc = "returned"
    /\ Len(data) = 3
    /\ data[1]["STATION_NAME"] = data[3]["STATION_NAME"]
    /\ data[1]["STATION_NAME"] # data[2]["STATION_NAME"]
    /\ Len(Readings(data[1])) = 1 /\ Len(Readings(data[3])) = 1
    /\ Keys(max_range_stations) = <<data[1]["STATION_NAME"], data[2]["STATION_NAME"]>>
    /\ max_range_stations[1][2].range = 3
    /\ max_range_stations[2][2].range = 3

----------------------------------------------------------------------------
(* Properties of calculate_seasonal_averages, under SpecSeasonal *)

\* C6: the sum over the four seasons of the number of observations gathered
\* equals the number of non-missing cells in the twelve month columns over all
\* rows.
C6_EveryCellOnce ==
    pc = "returned" =>
        Sum([i \in 1..Len(season_data) |-> Len(season_data[i][2])])
            = Sum([i \in 1..Len(data) |-> Present(data[i])])

\* a row with a reading in every month and a row with one reading
C6_Witness ==
    /\ pc = "returned"
    /\ \E i, j \in 1..Len(data) : Present(data[i]) = 12 /\ Present(data[j]) = 1
    /\ Sum([i \in 1..Len(season_data) |-> Len(season_data[i][2])]) = 13

\* C7: for every Dataset, also one with no rows, the returned mapping and
\* average_temp.txt hold exactly one entry per season in the order Summer,
\* Autumn, Winter, Spring, and a season with no observation has the value 0.0.
C7_OneEntryPerSeason ==
    pc = "returned" =>
        /\ Keys(seasonal_averages) = <<"Summer", "Autumn", "Winter", "Spring">>
        /\ Keys(disk[AVG_FILE].lines) = <<"Summer", "Autumn", "Winter", "Spring">>
        /\ \A i \in 1..Len(seasonal_averages) :
            (\A k \in 1..Len(data) :
                \A m \in Range(SEASONS[i][2]) : data[k][m] = None)
            => seasonal_averages[i][2] = Zero

----------------------------------------------------------------------------
(* Properties of main and read_csv_files, under Spec *)

Stages == <<AVG_FILE, RANGE_FILE, STAB_FILE>>

\* what a stage that succeeded left in its report file
Report(name) ==
    [exists |-> TRUE,
     lines |-> CASE name = AVG_FILE -> SeasonLines(seasonal_averages)
                 [] name = RANGE_FILE -> RangeLines(max_range_stations)
                 [] OTHER -> StabilityLines(most_stable, most_variable)]

\* C3: in every run of main the stages run in the order Loader, seasonal,
\* range, stability; a failure of a stage aborts the later stages and is
\* raised to the caller, so a report is written in a run only if every earlier
\* stage of the run succeeded, and the reports written earlier in the run stay.
C3_StagesInOrder ==
    /\ \E k \in 0..Len(Stages) : wrote = SubSeq(Stages, 1, k)
    /\ wrote # << >> => data # << >>
    /\ pc = "main" => wrote = << >> /\ data = << >>
    /\ pc = "loaded" => wrote = << >> /\ data # << >>
    /\ pc = "averaged" => wrote = <<AVG_FILE>>
    /\ pc = "ranged" => wrote = <<AVG_FILE, RANGE_FILE>>
    /\ pc = "done" => wrote = Stages
    /\ pc = "raised" <=> err # NoError
    /\ pc = "raised" => Len(wrote) < Len(Stages)
    /\ \A f \in OutFiles \ Range(wrote) : disk[f] = start[f]
    /\ \A f \in Range(wrote) : disk[f] = Report(f)

\* the range stage failed: the seasonal report of this run is on disk and the
\* other two files are as the run found them
C3_Witness ==
    /\ pc = "raised"
    /\ err = "NoStationData"
    /\ wrote = <<AVG_FILE>>
    /\ disk[AVG_FILE] # start[AVG_FILE]
    /\ disk[STAB_FILE] = start[STAB_FILE]

\* a file the Loader accepts: a CSV it can open, with every required column,
\* read to its end
Accepted(f) ==
    /\ f.ext = ".csv"
    /\ f.openable
    /\ f.fieldnames # None
    /\ Columns \subseteq Range(f.fieldnames)
    /\ ~f.broken

\* read_csv_files has just returned or raised
AfterLoad == pc = "loaded" \/ (pc = "raised" /\ data = << >>)

\* C4: when read_csv_files returns, the number of rows of the Dataset is the
\* sum of the record counts of the accepted files; a skipped file, also one
\* whose reading failed part-way, contributes no row.
C4_RowCount ==
    pc = "loaded" =>
        Len(data) = Sum([i \in 1..Len(folder.entries) |->
                            IF Accepted(folder.entries[i])
                            THEN Len(folder.entries[i].rows) ELSE 0])

\* C5: read_csv_files fails in exactly three cases, in this order: there is no
\* such folder (FolderNotFound), the folder has no .csv file (NoInputFiles),
\* the Dataset is empty after all files (NoValidData); otherwise it returns a
\* non-empty Dataset, and it never fails when some file was accepted with a
\* row.
C5_LoaderFailures ==
    AfterLoad =>
        LET isFolder == folder.kind = "dir"
            csvs == {i \in 1..Len(folder.entries) : folder.entries[i].ext = ".csv"}
        IN /\ err \in {NoError, "FolderNotFound", "NoInputFiles", "NoValidData"}
           /\ err = "FolderNotFound" <=> ~isFolder
           /\ err = "NoInputFiles" <=> (isFolder /\ csvs = {})
           /\ err = "NoValidData" <=> (isFolder /\ csvs # {} /\ pc = "raised")
           /\ err = NoError <=> (pc = "loaded" /\ data # << >>)
           /\ (\E i \in 1..Len(folder.entries) :
                    /\ Accepted(folder.entries[i])
                    /\ folder.entries[i].rows # << >>) => pc = "loaded"

\* what the reports of a folder are: the lines each analysis writes for the
\* Dataset read from the folder
ReportsOf(fd, name) ==
    LET rows == read_csv_files(fd).value
        none == [disk |-> Absent, unwritable |-> {}]
    IN CASE name = AVG_FILE -> calculate_seasonal_averages(rows, none).disk[name]
         [] name = RANGE_FILE -> find_largest_temp_range(rows, none).disk[name]
         [] OTHER -> find_temperature_stability(rows, none).disk[name]

\* C9: after a second run of main on the unchanged folder the three files
\* hold what they held after the first, and a report a run has written is
\* determined by the folder alone, whatever the files held before.
C9_Idempotent ==
    /\ (pc \in {"done", "raised"} /\ run >= 2) => disk = start
    /\ \A f \in Range(wrote) : disk[f] = ReportsOf(folder, f)

\* a second run has written all three reports over those of the first
C9_Witness ==
    /\ pc = "done"
    /\ run = 2
    /\ wrote = Stages
    /\ disk[RANGE_FILE].lines # << >>
    /\ disk # Stale

====
